---- MODULE Spec2Model ----
(***************************************************************************)
(* A model of the immutable, path-compressed radix tree `iradix`.          *)
(*                                                                         *)
(* The Go heap is modelled explicitly: every *node[T] is an index into     *)
(* `nodes`, every backing array of a `children` slice is an index into     *)
(* `arrs`, and every *Iradix[T] handle is an index into `trees`.  A field  *)
(* assignment in the source is an in-place update of the object it names,  *)
(* so a write through a shared pointer is seen by every holder of it.      *)
(*                                                                         *)
(* Every method is translated statement block by statement block into a    *)
(* step function over a call frame (the method's local variables and its   *)
(* position).  Spec runs each call to completion as one action; SpecConc   *)
(* interleaves the steps of several calls started from one handle.         *)
(***************************************************************************)
EXTENDS Integers, Sequences, FiniteSets, TLC

\* ------------------------------------------------------------- bounds
\* The sequential runs make calls until MaxTrees handles exist (New's and one
\* per call that returned a new handle).
MaxTrees == 4
\* The number of addresses set aside for each caller's allocations.
Stride == 100
\* The consumer of a walk answers false to one of the first MaxStopAfter pairs,
\* or to none.
MaxStopAfter == 2
\* The keys the calls are made with: the empty key, keys that are prefixes of
\* one another over three levels, and keys that part inside an edge.
Keys == {<<>>, <<1>>, <<2>>, <<1, 1>>, <<1, 2>>, <<2, 1>>, <<1, 2, 1>>, <<1, 2, 2>>}
\* T = string; Zero is *new(T).  Zero itself is a storable value.
Zero == ""
Vals == {Zero, "x"}

VARIABLES nodes, arrs, trees, cur, last, model, procs, base

vars == <<nodes, arrs, trees, cur, last, model, procs, base>>

\* ------------------------------------------------------------- heap
\* *T : <<>> is the nil pointer, <<v>> a pointer to v.
NilVal == <<>>
\* []*node[T] : array 0 is the nil slice.
NilArr == 0

\* `at` is where the caller's allocations go: the caller with number p gets the
\* addresses p * Stride + 1, p * Stride + 2, ... in each of nodes, arrs and trees,
\* so the address of an object does not depend on what other callers allocate.
Heap(ns, as, ts) == [nodes |-> ns, arrs |-> as, trees |-> ts, at |-> 0]

At(M, p) == [M EXCEPT !.at = p * Stride]

Fresh(objs, at) == at + 1 + Cardinality({d \in DOMAIN objs : d > at /\ d <= at + Stride})

children(M, n) == IF M.nodes[n].children = NilArr THEN <<>> ELSE M.arrs[M.nodes[n].children]

Range(s) == {s[j] : j \in 1..Len(s)}

Drop(s, k) == SubSeq(s, k + 1, Len(s))

Take(s, k) == SubSeq(s, 1, k)

AllocNode(M, path, val, ch) ==
    LET id == Fresh(M.nodes, M.at)
    IN  [M |-> [M EXCEPT !.nodes = (id :> [path |-> path, val |-> val, children |-> ch]) @@ @],
         id |-> id]

AllocArr(M, s) ==
    LET id == Fresh(M.arrs, M.at)
    IN  [M |-> [M EXCEPT !.arrs = (id :> s) @@ @], id |-> id]

\* Copies of the nodes of s from position j on, each with the fields of its original.
RECURSIVE cloneEach(_, _, _)
cloneEach(M, s, j) ==
    IF j > Len(s) THEN [M |-> M, ids |-> <<>>]
    ELSE LET c == AllocNode(M, M.nodes[s[j]].path, M.nodes[s[j]].val, M.nodes[s[j]].children)
             r == cloneEach(c.M, s, j + 1)
         IN  [M |-> r.M, ids |-> <<c.id>> \o r.ids]

\* a deep clone: the new array holds copies of the child nodes
CloneChildren_deep(M, a) ==
    IF a = NilArr THEN [M |-> M, id |-> NilArr]
    ELSE LET r == cloneEach(M, M.arrs[a], 1) IN AllocArr(r.M, r.ids)

\* slices.Clone of a children slice: nil stays nil, anything else gets a new array.
CloneChildren(M, a) ==
    IF a = NilArr THEN [M |-> M, id |-> NilArr] ELSE AllocArr(M, M.arrs[a])

\* children: n.children instead of slices.Clone(n.children)
copyNode_shareChildren(M, n) ==
    AllocNode(M, M.nodes[n].path, M.nodes[n].val, M.nodes[n].children)

copyNode(M, n) ==
    LET c == CloneChildren(M, M.nodes[n].children)
    IN  AllocNode(c.M, M.nodes[n].path, M.nodes[n].val, c.id)

\* returns min(len(a), len(b)) without comparing the bytes
commonPrefixLen_lengthOnly(a, b) == IF Len(a) < Len(b) THEN Len(a) ELSE Len(b)

RECURSIVE cplFrom(_, _, _)
cplFrom(a, b, j) ==
    IF j >= (IF Len(a) < Len(b) THEN Len(a) ELSE Len(b)) THEN (IF Len(a) < Len(b) THEN Len(a) ELSE Len(b))
    ELSE IF a[j + 1] # b[j + 1] THEN j
    ELSE cplFrom(a, b, j + 1)

commonPrefixLen(a, b) == cplFrom(a, b, 0)

\* true whenever the first bytes agree, without comparing the rest of prefix
HasPrefix_firstByte(s, prefix) ==
    Len(prefix) = 0 \/ (Len(s) > 0 /\ s[1] = prefix[1])

\* bytes.HasPrefix(s, prefix)
HasPrefix(s, prefix) == Len(s) >= Len(prefix) /\ Take(s, Len(prefix)) = prefix

\* slices.IndexFunc(children, n => len(n.path) > 0 && n.path[0] == b): 0-based, -1 if none.
RECURSIVE idxFrom(_, _, _, _)
idxFrom(M, ch, b, j) ==
    IF j >= Len(ch) THEN -1
    ELSE IF Len(M.nodes[ch[j + 1]].path) > 0 /\ M.nodes[ch[j + 1]].path[1] = b THEN j
    ELSE idxFrom(M, ch, b, j + 1)

\* looks at the first child only
IndexFunc_firstOnly(M, n, b) ==
    IF children(M, n) # <<>> /\ idxFrom(M, children(M, n), b, 0) = 0 THEN 0 ELSE -1

IndexFunc(M, n, b) == idxFrom(M, children(M, n), b, 0)

New == Heap(<<[path |-> <<>>, val |-> NilVal, children |-> NilArr]>>, <<>>, <<[root |-> 1]>>)

\* ------------------------------------------------------------- call frames
\* The locals of one call.  `mine`/`mineArr` are the nodes and arrays the call
\* allocated; `w`/`wa` the nodes and arrays the last step stored into, `wAll`/
\* `waAll` those of the whole call so far (allocation is not a store).
Call(op, i, key, val) ==
    [op |-> op, pc |-> IF op = "Insert" THEN "ins_check" ELSE "del_check",
     i |-> i, key0 |-> key, key |-> key, val |-> val,
     currentNode |-> 0, newRoot |-> 0,
     parents |-> <<>>, childIndices |-> <<>>, idx |-> 0,
     oldVal |-> Zero, existed |-> FALSE, newTree |-> 0,
     merges |-> 0, unlinks |-> 0,
     mine |-> {}, mineArr |-> {}, w |-> {}, wa |-> {}, wAll |-> {}, waAll |-> {}]

\* Get's frame, after line 19: currentNode := i.root
GetCall(root, i, key) ==
    [op |-> "Get", pc |-> "get_loop", i |-> i, key0 |-> key, key |-> key,
     currentNode |-> root, got |-> [val |-> Zero, ok |-> FALSE]]

\* The frame of one walk of the sequence Iterate returns.
IterateCall(i, stopAfter) ==
    [op |-> "Iterate", pc |-> "it_start", i |-> i,
     stack |-> <<>>, out |-> <<>>, stopAfter |-> stopAfter, stopped |-> FALSE]

Res(M, f) == [M |-> M, f |-> f]

\* Book-keeping shared by every step: what the step allocated and stored into.
Note(M0, M1, f, w, wa) ==
    [f EXCEPT !.mine = @ \cup (DOMAIN M1.nodes \ DOMAIN M0.nodes),
              !.mineArr = @ \cup (DOMAIN M1.arrs \ DOMAIN M0.arrs),
              !.w = w, !.wa = wa,
              !.wAll = @ \cup w, !.waAll = @ \cup wa]

\* &Iradix[T]{root: r}
AllocTree(M, r) ==
    LET id == Fresh(M.trees, M.at)
    IN  [M |-> [M EXCEPT !.trees = (id :> [root |-> r]) @@ @], id |-> id]

\* ------------------------------------------------------------- Get
GetLoop(M, f) ==
    IF Len(f.key) = 0 THEN [f EXCEPT !.pc = "get_ret"]
    ELSE LET childIdx == IndexFunc(M, f.currentNode, f.key[1])
         IN  IF childIdx = -1
             THEN [f EXCEPT !.pc = "done", !.got = [val |-> Zero, ok |-> FALSE]]
             ELSE LET child == children(M, f.currentNode)[childIdx + 1]
                  IN  IF ~HasPrefix(f.key, M.nodes[child].path)
                      THEN [f EXCEPT !.pc = "done", !.got = [val |-> Zero, ok |-> FALSE]]
                      ELSE [f EXCEPT !.key = Drop(@, Len(M.nodes[child].path)),
                                     !.currentNode = child]

GetRet(M, f) ==
    IF M.nodes[f.currentNode].val # NilVal
    THEN [f EXCEPT !.pc = "done", !.got = [val |-> M.nodes[f.currentNode].val[1], ok |-> TRUE]]
    ELSE [f EXCEPT !.pc = "done", !.got = [val |-> Zero, ok |-> FALSE]]

GetStep(M, f) ==
    IF f.pc = "get_loop" THEN GetLoop(M, f) ELSE GetRet(M, f)

RECURSIVE GetRun(_, _)
GetRun(M, f) == IF f.pc = "done" THEN f ELSE GetRun(M, GetStep(M, f))

GetFrom(M, root, key) ==
    GetRun(M, GetCall(root, 0, key)).got

Get(M, i, key) == GetFrom(M, M.trees[i].root, key)

\* ------------------------------------------------------------- stores
\* n.val = v, n.path = p, n.children = a (the slice header)
SetVal(M, n, v) == [M EXCEPT !.nodes[n].val = v]

SetPath(M, n, p) == [M EXCEPT !.nodes[n].path = p]

SetChildren(M, n, a) == [M EXCEPT !.nodes[n].children = a]

\* n.children[j] = x (0-based j): a store into the backing array
SetChild(M, n, j, x) == [M EXCEPT !.arrs[M.nodes[n].children][j + 1] = x]

\* puts x in front of the children instead of behind them
appendChild_prepend(M, n, x) ==
    IF M.nodes[n].children = NilArr
    THEN LET a == AllocArr(M, <<x>>) IN SetChildren(a.M, n, a.id)
    ELSE [M EXCEPT !.arrs[M.nodes[n].children] = <<x>> \o @]

\* n.children = append(n.children, x).  A nil slice gets a new array; otherwise
\* the element is stored behind the last one of the slice's own array (the
\* array is the one copyNode allocated for n, so growing it in place or moving
\* it gives the same list to every holder the code has).
appendChild(M, n, x) ==
    IF M.nodes[n].children = NilArr
    THEN LET a == AllocArr(M, <<x>>) IN SetChildren(a.M, n, a.id)
    ELSE [M EXCEPT !.arrs[M.nodes[n].children] = Append(@, x)]

\* slices.Delete(n.children, 0, 1): drops the first child whatever j is
deleteChild_first(M, n, j) ==
    [M EXCEPT !.arrs[M.nodes[n].children] = Drop(@, 1)]

\* n.children = slices.Delete(n.children, j, j+1): shifts the array in place.
deleteChild(M, n, j) ==
    [M EXCEPT !.arrs[M.nodes[n].children] = Take(@, j) \o Drop(@, j + 1)]

ArrOf(M, n) == IF M.nodes[n].children = NilArr THEN {} ELSE {M.nodes[n].children}

\* ------------------------------------------------------------- Insert
\* without the shortcut of lines 47-49
InsCheck_noShortcut(M, f) == Res(M, [Note(M, M, f, {}, {}) EXCEPT !.pc = "ins_root"])

\* lines 47-49
InsCheck(M, f) ==
    LET g == Get(M, f.i, f.key)
    IN  IF g.ok /\ g.val = f.val
        THEN Res(M, [Note(M, M, f, {}, {}) EXCEPT !.pc = "done", !.oldVal = g.val,
                                                  !.existed = TRUE, !.newTree = f.i])
        ELSE Res(M, [Note(M, M, f, {}, {}) EXCEPT !.pc = "ins_root"])

\* return oldVal, existed, &Iradix[T]{root: newRoot}
Return(M0, M1, f, w, wa) ==
    LET t == AllocTree(M1, f.newRoot)
    IN  Res(t.M, [Note(M0, M1, f, w, wa) EXCEPT !.pc = "done", !.newTree = t.id])

\* newRoot := &node[T]{} instead of copyNode(i.root)
InsRoot_emptyRoot(M, f) ==
    LET c == AllocNode(M, <<>>, NilVal, NilArr)
        g == [f EXCEPT !.newRoot = c.id, !.currentNode = c.id]
    IN  IF Len(f.key) = 0
        THEN Return(M, SetVal(c.M, c.id, <<f.val>>), g, {c.id}, {})
        ELSE Res(c.M, [Note(M, c.M, g, {}, {}) EXCEPT !.pc = "ins_loop"])

\* lines 50-59
InsRoot(M, f) ==
    LET c == copyNode(M, M.trees[f.i].root)
        g == [f EXCEPT !.newRoot = c.id, !.currentNode = c.id]
    IN  IF Len(f.key) = 0
        THEN LET old == c.M.nodes[c.id].val
                 h == IF old # NilVal THEN [g EXCEPT !.oldVal = old[1], !.existed = TRUE] ELSE g
             IN  Return(M, SetVal(c.M, c.id, <<f.val>>), h, {c.id}, {})
        ELSE Res(c.M, [Note(M, c.M, g, {}, {}) EXCEPT !.pc = "ins_loop"])

\* lines 65-72: no child starts with the next byte
InsLeaf(M, f) ==
    LET n == AllocNode(M, f.key, <<f.val>>, NilArr)
    IN  Return(M, appendChild(n.M, f.currentNode, n.id), f,
               {f.currentNode}, ArrOf(M, f.currentNode))

\* without copyNode of line 78: descends into the child of the receiver's tree
InsDescend_inPlace(M, f, childIdx, child, commonLen) ==
    Res(M, [Note(M, M, f, {}, {}) EXCEPT !.currentNode = child, !.key = Drop(@, commonLen)])

\* without line 81: the matched bytes stay in the key
InsDescend_keepKey(M, f, childIdx, child, commonLen) ==
    LET c == copyNode(M, child)
        M1 == SetChild(c.M, f.currentNode, childIdx, c.id)
    IN  Res(M1, [Note(M, M1, f, {}, ArrOf(M, f.currentNode)) EXCEPT !.currentNode = c.id])

\* lines 77-81: the child's whole path is matched
InsDescend(M, f, childIdx, child, commonLen) ==
    LET c == copyNode(M, child)
        M1 == SetChild(c.M, f.currentNode, childIdx, c.id)
    IN  Res(M1, [Note(M, M1, f, {}, ArrOf(M, f.currentNode))
                   EXCEPT !.currentNode = c.id, !.key = Drop(@, commonLen)])

\* instead of line 100: the old child is taken out of the parent's children
\* and the split node appended to them
InsSplit_moveLast(M, f, childIdx, child, commonLen) ==
    LET c == copyNode(M, child)
        a == AllocArr(c.M, <<c.id>>)
        s == AllocNode(a.M, Take(M.nodes[child].path, commonLen), NilVal, a.id)
        M1 == SetPath(s.M, c.id, Drop(M.nodes[child].path, commonLen))
        M2 == IF commonLen = Len(f.key)
              THEN SetVal(M1, s.id, <<f.val>>)
              ELSE LET n == AllocNode(M1, Drop(f.key, commonLen), <<f.val>>, NilArr)
                   IN  appendChild(n.M, s.id, n.id)
        M3 == appendChild(deleteChild(M2, f.currentNode, childIdx), f.currentNode, s.id)
    IN  Return(M, M3, f, {c.id, s.id}, {a.id} \cup ArrOf(M, f.currentNode))

\* lines 83-101: the key leaves the child's path inside it
InsSplit(M, f, childIdx, child, commonLen) ==
    LET c == copyNode(M, child)
        a == AllocArr(c.M, <<c.id>>)
        s == AllocNode(a.M, Take(M.nodes[child].path, commonLen), NilVal, a.id)
        M1 == SetPath(s.M, c.id, Drop(M.nodes[child].path, commonLen))
        M2 == IF commonLen = Len(f.key)
              THEN SetVal(M1, s.id, <<f.val>>)
              ELSE LET n == AllocNode(M1, Drop(f.key, commonLen), <<f.val>>, NilArr)
                   IN  appendChild(n.M, s.id, n.id)
        M3 == SetChild(M2, f.currentNode, childIdx, s.id)
    IN  Return(M, M3, f, {c.id, s.id}, {a.id} \cup ArrOf(M, f.currentNode))

\* without the case of lines 77-81: a child whose whole path is matched is
\* split like one whose path the key leaves
InsLoop_alwaysSplit(M, f) ==
    IF Len(f.key) = 0 THEN Res(M, [Note(M, M, f, {}, {}) EXCEPT !.pc = "ins_tail"])
    ELSE LET childIdx == IndexFunc(M, f.currentNode, f.key[1])
         IN  IF childIdx = -1 THEN InsLeaf(M, f)
             ELSE LET child == children(M, f.currentNode)[childIdx + 1]
                      commonLen == commonPrefixLen(f.key, M.nodes[child].path)
                  IN  InsSplit(M, f, childIdx, child, commonLen)

\* lines 60-103: the loop test and one iteration
InsLoop(M, f) ==
    IF Len(f.key) = 0 THEN Res(M, [Note(M, M, f, {}, {}) EXCEPT !.pc = "ins_tail"])
    ELSE LET childIdx == IndexFunc(M, f.currentNode, f.key[1])
         IN  IF childIdx = -1 THEN InsLeaf(M, f)
             ELSE LET child == children(M, f.currentNode)[childIdx + 1]
                      commonLen == commonPrefixLen(f.key, M.nodes[child].path)
                  IN  IF commonLen = Len(M.nodes[child].path)
                      THEN InsDescend(M, f, childIdx, child, commonLen)
                      ELSE InsSplit(M, f, childIdx, child, commonLen)

\* without lines 105-107: the old value is not reported
InsTail_noOld(M, f) ==
    Return(M, SetVal(M, f.currentNode, <<f.val>>), f, {f.currentNode}, {})

\* lines 105-110
InsTail(M, f) ==
    LET old == M.nodes[f.currentNode].val
        g == IF old # NilVal THEN [f EXCEPT !.oldVal = old[1], !.existed = TRUE] ELSE f
    IN  Return(M, SetVal(M, f.currentNode, <<f.val>>), g, {f.currentNode}, {})

InsertStep(M, f) ==
    CASE f.pc = "ins_check" -> InsCheck(M, f)
      [] f.pc = "ins_root" -> InsRoot(M, f)
      [] f.pc = "ins_loop" -> InsLoop(M, f)
      [] OTHER -> InsTail(M, f)

\* ------------------------------------------------------------- Delete
\* without the shortcut of lines 114-116
DelCheck_noCheck(M, f) == Res(M, [Note(M, M, f, {}, {}) EXCEPT !.pc = "del_root"])

\* lines 114-116
DelCheck(M, f) ==
    IF ~Get(M, f.i, f.key).ok
    THEN Res(M, [Note(M, M, f, {}, {}) EXCEPT !.pc = "done", !.newTree = f.i])
    ELSE Res(M, [Note(M, M, f, {}, {}) EXCEPT !.pc = "del_root"])

\* newRoot := i.root instead of copyNode(i.root)
DelRoot_noCopy(M, f) ==
    Res(M, [Note(M, M, f, {}, {}) EXCEPT !.newRoot = M.trees[f.i].root,
                                         !.currentNode = M.trees[f.i].root,
                                         !.pc = "del_loop"])

\* lines 118-122
DelRoot(M, f) ==
    LET c == copyNode(M, M.trees[f.i].root)
    IN  Res(c.M, [Note(M, c.M, f, {}, {}) EXCEPT !.newRoot = c.id, !.currentNode = c.id,
                                                  !.pc = "del_loop"])

\* lines 123-134: the loop test and one iteration.  An index of -1 and a path
\* longer than the rest of the key are run-time panics.
DelLoop(M, f) ==
    IF Len(f.key) = 0 THEN Res(M, [Note(M, M, f, {}, {}) EXCEPT !.pc = "del_clear"])
    ELSE LET childIdx == IndexFunc(M, f.currentNode, f.key[1])
         IN  IF childIdx = -1 THEN Res(M, [Note(M, M, f, {}, {}) EXCEPT !.pc = "panic"])
             ELSE LET child == children(M, f.currentNode)[childIdx + 1]
                      c == copyNode(M, child)
                      M1 == SetChild(c.M, f.currentNode, childIdx, c.id)
                      g == [Note(M, M1, f, {}, ArrOf(M, f.currentNode))
                              EXCEPT !.parents = Append(@, f.currentNode),
                                     !.childIndices = Append(@, childIdx),
                                     !.currentNode = c.id]
                  IN  IF Len(M1.nodes[c.id].path) > Len(f.key)
                      THEN Res(M1, [g EXCEPT !.pc = "panic"])
                      ELSE Res(M1, [g EXCEPT !.key = Drop(@, Len(M1.nodes[c.id].path))])

\* lines 136-139, and the start of the loop of line 142
DelClear(M, f) ==
    LET old == M.nodes[f.currentNode].val
        g == [f EXCEPT !.idx = Len(f.parents) - 1, !.pc = "del_compress"]
    IN  IF old # NilVal
        THEN Res(SetVal(M, f.currentNode, NilVal),
                 [Note(M, M, g, {f.currentNode}, {}) EXCEPT !.oldVal = old[1], !.existed = TRUE])
        ELSE Res(M, Note(M, M, g, {}, {}))

\* without the slices.Delete of line 147: the emptied node stays in its parent
DelUnlink_keep(M, f, parent, childIdx) ==
    Res(M, [Note(M, M, f, {}, {})
              EXCEPT !.currentNode = parent, !.idx = @ - 1, !.unlinks = @ + 1])

\* lines 146-147
DelUnlink(M, f, parent, childIdx) ==
    Res(deleteChild(M, parent, childIdx),
        [Note(M, M, f, {parent}, ArrOf(M, parent))
           EXCEPT !.currentNode = parent, !.idx = @ - 1, !.unlinks = @ + 1])

\* without lines 149-152: a node left with one child is kept as it is
DelMerge_skip(M, f, parent) ==
    Res(M, [Note(M, M, f, {}, {}) EXCEPT !.currentNode = parent, !.idx = @ - 1])

\* without line 151: the merged node does not take its child's value
DelMerge_noVal(M, f, parent) ==
    LET onlyChild == children(M, f.currentNode)[1]
        M1 == SetPath(M, f.currentNode, M.nodes[f.currentNode].path \o M.nodes[onlyChild].path)
        M3 == SetChildren(M1, f.currentNode, M.nodes[onlyChild].children)
    IN  Res(M3, [Note(M, M, f, {f.currentNode}, {})
                   EXCEPT !.currentNode = parent, !.idx = @ - 1, !.merges = @ + 1])

\* lines 148-152
DelMerge(M, f, parent) ==
    LET onlyChild == children(M, f.currentNode)[1]
        M1 == SetPath(M, f.currentNode, M.nodes[f.currentNode].path \o M.nodes[onlyChild].path)
        M2 == SetVal(M1, f.currentNode, M.nodes[onlyChild].val)
        M3 == SetChildren(M2, f.currentNode, M.nodes[onlyChild].children)
    IN  Res(M3, [Note(M, M, f, {f.currentNode}, {})
                   EXCEPT !.currentNode = parent, !.idx = @ - 1, !.merges = @ + 1])

\* without the tests of currentNode.val in lines 146 and 148
DelCompress_ignoreVal(M, f) ==
    IF f.idx < 0 THEN Res(M, [Note(M, M, f, {}, {}) EXCEPT !.pc = "del_ret"])
    ELSE LET parent == f.parents[f.idx + 1]
             childIdx == f.childIndices[f.idx + 1]
         IN  IF Len(children(M, f.currentNode)) = 0
             THEN DelUnlink(M, f, parent, childIdx)
             ELSE IF Len(children(M, f.currentNode)) = 1
             THEN DelMerge(M, f, parent)
             ELSE Res(M, [Note(M, M, f, {}, {}) EXCEPT !.pc = "del_ret"])

\* lines 142-158: the loop test and one iteration
DelCompress(M, f) ==
    IF f.idx < 0 THEN Res(M, [Note(M, M, f, {}, {}) EXCEPT !.pc = "del_ret"])
    ELSE LET parent == f.parents[f.idx + 1]
             childIdx == f.childIndices[f.idx + 1]
             cn == M.nodes[f.currentNode]
         IN  IF cn.val = NilVal /\ Len(children(M, f.currentNode)) = 0
             THEN DelUnlink(M, f, parent, childIdx)
             ELSE IF cn.val = NilVal /\ Len(children(M, f.currentNode)) = 1
             THEN DelMerge(M, f, parent)
             ELSE Res(M, [Note(M, M, f, {}, {}) EXCEPT !.pc = "del_ret"])

\* line 160
DelRet(M, f) == Return(M, M, f, {}, {})

DeleteStep(M, f) ==
    CASE f.pc = "del_check" -> DelCheck(M, f)
      [] f.pc = "del_root" -> DelRoot(M, f)
      [] f.pc = "del_loop" -> DelLoop(M, f)
      [] f.pc = "del_clear" -> DelClear(M, f)
      [] f.pc = "del_compress" -> DelCompress(M, f)
      [] OTHER -> DelRet(M, f)

\* ------------------------------------------------------------- Iterate
\* The recursion of lines 166-180 with its pending calls kept in `stack`: each
\* entry is one call iterate(prefix, n) still to be made, in the order the
\* range loops make them.  `out` is what yield was called with; the consumer
\* answers false to the stopAfter-th pair (never, when stopAfter is 0).
ItStart(M, f) ==
    [f EXCEPT !.pc = "it_visit", !.stack = <<[prefix |-> <<>>, n |-> M.trees[f.i].root]>>]

\* returns after the yield of line 172: the children of a node that holds a
\* value are not visited
ItVisit_valueEndsBranch(M, f) ==
    IF Len(f.stack) = 0 THEN [f EXCEPT !.pc = "done"]
    ELSE LET e == Head(f.stack)
             rest == Tail(f.stack)
             currentPrefix == IF e.n # M.trees[f.i].root
                              THEN e.prefix \o M.nodes[e.n].path ELSE e.prefix
             calls == [j \in 1..Len(children(M, e.n)) |->
                          [prefix |-> currentPrefix, n |-> children(M, e.n)[j]]]
         IN  IF M.nodes[e.n].val # NilVal
             THEN [f EXCEPT !.out = Append(@, <<currentPrefix, M.nodes[e.n].val[1]>>),
                            !.stack = rest]
             ELSE [f EXCEPT !.stack = calls \o rest]

\* ranges over n.children from the last child to the first
ItVisit_lastChildFirst(M, f) ==
    IF Len(f.stack) = 0 THEN [f EXCEPT !.pc = "done"]
    ELSE LET e == Head(f.stack)
             rest == Tail(f.stack)
             currentPrefix == IF e.n # M.trees[f.i].root
                              THEN e.prefix \o M.nodes[e.n].path ELSE e.prefix
             ch == children(M, e.n)
             calls == [j \in 1..Len(ch) |->
                          [prefix |-> currentPrefix, n |-> ch[Len(ch) + 1 - j]]]
         IN  IF M.nodes[e.n].val # NilVal
             THEN [f EXCEPT !.out = Append(@, <<currentPrefix, M.nodes[e.n].val[1]>>),
                            !.stack = calls \o rest]
             ELSE [f EXCEPT !.stack = calls \o rest]

\* without line 173: the return of line 174 ends the call for this node only
ItVisit_returnOnly(M, f) ==
    IF Len(f.stack) = 0 THEN [f EXCEPT !.pc = "done"]
    ELSE LET e == Head(f.stack)
             rest == Tail(f.stack)
             currentPrefix == IF e.n # M.trees[f.i].root
                              THEN e.prefix \o M.nodes[e.n].path ELSE e.prefix
             calls == [j \in 1..Len(children(M, e.n)) |->
                          [prefix |-> currentPrefix, n |-> children(M, e.n)[j]]]
         IN  IF M.nodes[e.n].val # NilVal
             THEN LET o == Append(f.out, <<currentPrefix, M.nodes[e.n].val[1]>>)
                  IN  IF Len(o) = f.stopAfter
                      THEN [f EXCEPT !.out = o, !.stack = rest]
                      ELSE [f EXCEPT !.out = o, !.stack = calls \o rest]
             ELSE [f EXCEPT !.stack = calls \o rest]

ItVisit(M, f) ==
    IF Len(f.stack) = 0 THEN [f EXCEPT !.pc = "done"]
    ELSE LET e == Head(f.stack)
             rest == Tail(f.stack)
             currentPrefix == IF e.n # M.trees[f.i].root
                              THEN e.prefix \o M.nodes[e.n].path ELSE e.prefix
             calls == [j \in 1..Len(children(M, e.n)) |->
                          [prefix |-> currentPrefix, n |-> children(M, e.n)[j]]]
         IN  IF f.stopped THEN [f EXCEPT !.stack = rest]
             ELSE IF M.nodes[e.n].val # NilVal
             THEN LET o == Append(f.out, <<currentPrefix, M.nodes[e.n].val[1]>>)
                  IN  IF Len(o) = f.stopAfter
                      THEN [f EXCEPT !.out = o, !.stopped = TRUE, !.stack = rest]
                      ELSE [f EXCEPT !.out = o, !.stack = calls \o rest]
             ELSE [f EXCEPT !.stack = calls \o rest]

IterateStep(M, f) ==
    IF f.pc = "it_start" THEN ItStart(M, f) ELSE ItVisit(M, f)

RECURSIVE IterateRun(_, _)
IterateRun(M, f) == IF f.pc = "done" THEN f ELSE IterateRun(M, IterateStep(M, f))

Iterate(M, i) == IterateRun(M, IterateCall(i, 0)).out

\* ------------------------------------------------------------- running a call
Finished(f) == f.pc \in {"done", "panic"}

Step(M, f) ==
    CASE f.op = "Insert" -> InsertStep(M, f)
      [] f.op = "Delete" -> DeleteStep(M, f)
      [] f.op = "Get" -> Res(M, GetStep(M, f))
      [] OTHER -> Res(M, IterateStep(M, f))

RECURSIVE Run(_, _)
Run(M, f) == IF Finished(f) THEN Res(M, f) ELSE LET r == Step(M, f) IN Run(r.M, r.f)

\* ------------------------------------------------------------- Spec
\* One chain of versions: every call is made on `cur`, the handle the previous
\* call returned; `trees` keeps every handle ever returned.  `last` is the frame
\* of the call just made, `model` the key -> value map the calls describe.
H == Heap(nodes, arrs, trees)

Init ==
    /\ nodes = New.nodes
    /\ arrs = New.arrs
    /\ trees = New.trees
    /\ cur = 1
    /\ last = [op |-> "New", pc |-> "done", i |-> 0, newTree |-> 1]
    /\ model = [k \in Keys |-> NilVal]
    /\ procs = <<>>
    /\ base = New

Done(r) ==
    /\ nodes' = r.M.nodes
    /\ arrs' = r.M.arrs
    /\ trees' = r.M.trees
    /\ last' = r.f
    /\ cur' = IF r.f.pc = "done" THEN r.f.newTree ELSE cur
    /\ UNCHANGED procs

\* The run goes on while handles may still be made, and from a call that made
\* one.  A call that returned its receiver is the last of its run: the calls
\* that could follow it are made on the handle the call before it was made on,
\* and follow that call in another run.
Continues == Cardinality(DOMAIN trees) < MaxTrees /\ last.pc = "done" /\ last.newTree # last.i

Insert(key, val) ==
    /\ Continues
    /\ Done(Run(H, Call("Insert", cur, key, val)))
    /\ model' = [model EXCEPT ![key] = <<val>>]
    /\ UNCHANGED base

Delete(key) ==
    /\ Continues
    /\ Done(Run(H, Call("Delete", cur, key, Zero)))
    /\ model' = [model EXCEPT ![key] = NilVal]
    /\ UNCHANGED base

Next ==
    \/ \E key \in Keys, val \in Vals : Insert(key, val)
    \/ \E key \in Keys : Delete(key)

Spec == Init /\ [][Next]_vars

\* ------------------------------------------------------------- SpecConc
\* Two callers make one call each on the same handle `cur`, without
\* synchronisation: their steps interleave in every order.  Before they start,
\* the tree of `cur` is built from New() by the Insert calls of one of Bases;
\* `base` is the heap when the two calls start.
Procs == {1, 2}

Idle == [op |-> "none", pc |-> "idle"]

Ins(key, val) == [op |-> "Insert", key |-> key, val |-> val]

Bases ==
    {<<Ins(<<1, 1>>, "x"), Ins(<<1, 2>>, Zero)>>,
     <<Ins(<<1>>, "x"), Ins(<<1, 2, 1>>, "x")>>}

\* The map the calls of a sequence describe.
RECURSIVE ModelOf(_)
ModelOf(calls) ==
    IF calls = <<>> THEN [k \in Keys |-> NilVal]
    ELSE [ModelOf(Take(calls, Len(calls) - 1))
            EXCEPT ![calls[Len(calls)].key] = <<calls[Len(calls)].val>>]

InitConc ==
    /\ nodes = New.nodes
    /\ arrs = New.arrs
    /\ trees = New.trees
    /\ cur = 1
    /\ last = [op |-> "New", pc |-> "done", i |-> 0, newTree |-> 1]
    /\ model = [k \in Keys |-> NilVal]
    /\ procs = [p \in Procs |-> Idle]
    /\ base = New

\* The next Insert of a base sequence, made before the two callers start.
Setup(b, n) ==
    /\ \A p \in Procs : procs[p].pc = "idle"
    /\ n <= Len(b) /\ n = Cardinality(DOMAIN trees)
    /\ model = ModelOf(Take(b, n - 1))
    /\ LET r == Run(H, Call("Insert", cur, b[n].key, b[n].val))
       IN  Done(r) /\ base' = r.M
    /\ model' = [model EXCEPT ![b[n].key] = <<b[n].val>>]

Begin(p, f) ==
    /\ procs[p].pc = "idle"
    /\ procs' = [procs EXCEPT ![p] = f]
    /\ UNCHANGED <<nodes, arrs, trees, cur, last, model, base>>

BeginGet(p, key) == Begin(p, GetCall(trees[cur].root, cur, key))

BeginIterate(p, stopAfter) == Begin(p, IterateCall(cur, stopAfter))

BeginInsert(p, key, val) == Begin(p, Call("Insert", cur, key, val))

BeginDelete(p, key) == Begin(p, Call("Delete", cur, key, Zero))

\* One step of p's call.
StepProc(p) ==
    /\ procs[p].pc # "idle" /\ ~Finished(procs[p])
    /\ LET r == Step(At(H, p), procs[p])
       IN  /\ nodes' = r.M.nodes
           /\ arrs' = r.M.arrs
           /\ trees' = r.M.trees
           /\ procs' = [procs EXCEPT ![p] = r.f]
    /\ UNCHANGED <<cur, last, model, base>>

NextConc ==
    \/ \E b \in Bases : \E n \in 1..Len(b) : Setup(b, n)
    \/ \E p \in Procs, key \in Keys : BeginGet(p, key)
    \/ \E p \in Procs, stopAfter \in 0..MaxStopAfter : BeginIterate(p, stopAfter)
    \/ \E p \in Procs, key \in Keys, val \in Vals : BeginInsert(p, key, val)
    \/ \E p \in Procs, key \in Keys : BeginDelete(p, key)
    \/ \E p \in Procs : StepProc(p)

SpecConc == InitConc /\ [][NextConc]_vars

\* ------------------------------------------------------------- observations
H2 == Heap(nodes', arrs', trees')

NotFound == [val |-> Zero, ok |-> FALSE]

RECURSIVE ReachFrom(_, _)
ReachFrom(M, n) == {n} \cup UNION {ReachFrom(M, c) : c \in Range(children(M, n))}

Reach(M, i) == ReachFrom(M, M.trees[i].root)

\* Everything a holder of handle i can see: its lookups, its traversal and the
\* nodes it reaches with their paths, values and children lists.
Snapshot(M, i) ==
    [get |-> [k \in Keys |-> Get(M, i, k)],
     it |-> Iterate(M, i),
     graph |-> [n \in Reach(M, i) |->
                  [path |-> M.nodes[n].path, val |-> M.nodes[n].val, children |-> children(M, n)]]]

\* Len(): the number of stored entries, counted as the nodes of the tree that
\* hold a value.
TreeLen(M, i) == Cardinality({n \in Reach(M, i) : M.nodes[n].val # NilVal})

\* The closure `iterate` of lines 166-180 as the recursion it is, for a consumer
\* that never stops: what iterate(prefix, n) yields, and (from position j on)
\* what the range loop of lines 177-179 yields.
RECURSIVE iterate(_, _, _, _), iterateChildren(_, _, _, _, _)
iterate(M, i, prefix, n) ==
    LET currentPrefix == IF n # M.trees[i].root THEN prefix \o M.nodes[n].path ELSE prefix
        own == IF M.nodes[n].val # NilVal THEN <<<<currentPrefix, M.nodes[n].val[1]>>>> ELSE <<>>
    IN  own \o iterateChildren(M, i, currentPrefix, n, 1)

iterateChildren(M, i, currentPrefix, n, j) ==
    IF j > Len(children(M, n)) THEN <<>>
    ELSE iterate(M, i, currentPrefix, children(M, n)[j])
             \o iterateChildren(M, i, currentPrefix, n, j + 1)

\* a is a proper prefix of b
ProperPrefix(a, b) == Len(a) < Len(b) /\ Take(b, Len(a)) = a

HeapUnchanged == nodes' = nodes /\ arrs' = arrs /\ trees' = trees

\* ------------------------------------------------------------- claims

\* C1: Get on the handle a chain of Insert and Delete calls from New() ends with
\* returns (v, true) exactly for the keys whose latest call was Insert(k, v), and
\* (zero value, false) for every other key.
C1_MapRefinement ==
    \A k \in Keys :
        Get(H, cur, k) = IF model[k] = NilVal THEN NotFound
                         ELSE [val |-> model[k][1], ok |-> TRUE]

C1_Witness ==
    /\ last.op = "Delete" /\ last.key0 = <<1>> /\ last.existed
    /\ model[<<1, 2>>] = <<Zero>> /\ model[<<1>>] = NilVal
    /\ Get(H, cur, <<1, 2>>).ok /\ ~Get(H, cur, <<1>>).ok

\* C2: a call leaves every handle that existed before it as it was: the same
\* Get results, the same Iterate sequence, the same reachable nodes with the
\* same paths, values and children lists.
C2_PriorVersionsImmutable ==
    [][\A i \in DOMAIN trees : Snapshot(H2, i) = Snapshot(H, i)]_vars

C2_Witness ==
    /\ last.op = "Delete" /\ last.existed /\ last.merges = 1
    /\ Cardinality(DOMAIN trees) = 4 /\ Len(Iterate(H, last.i)) = 2
    /\ Iterate(H, last.newTree) # Iterate(H, last.i)

\* The nodes and arrays some returned handle reaches.
Published(M) == UNION {Reach(M, i) : i \in DOMAIN M.trees}

PublishedArrs(M) == UNION {ArrOf(M, n) : n \in Published(M)}

Writer(f) == f.op \in {"Insert", "Delete"}

Reader(f) == f.op \in {"Get", "Iterate"}

\* The nodes a call is at: those its next step reads or stores into.
Touches(f) ==
    CASE f.pc = "idle" -> {}
      [] f.op = "Iterate" -> {f.stack[j].n : j \in 1..Len(f.stack)}
      [] f.op = "Get" -> {f.currentNode}
      [] OTHER -> ({f.currentNode, f.newRoot} \cup Range(f.parents)) \ {0}

Own(f) == IF Writer(f) THEN f.mine ELSE {}

\* What one step of caller p did to the heap H, seen from the state after it.
StepStores(p) ==
    LET f == procs'[p]
        changed == {n \in DOMAIN nodes : nodes'[n] # nodes[n]}
        changedArrs == {a \in DOMAIN arrs : arrs'[a] # arrs[a]}
    IN  /\ changed \cap Published(H) = {}
        /\ changedArrs \cap PublishedArrs(H) = {}
        /\ Touches(f) \subseteq Published(H) \cup Own(f)
        /\ Reader(f) => HeapUnchanged
        /\ Writer(f) =>
             /\ changed \subseteq f.w /\ changedArrs \subseteq f.wa
             /\ f.w \subseteq f.mine /\ f.wa \subseteq f.mineArr
             /\ f.w \cap Published(H) = {} /\ f.wa \cap PublishedArrs(H) = {}

ReadAlone(f) ==
    /\ (f.op = "Get" /\ f.pc = "done") => f.got = Get(base, cur, f.key0)
    /\ (f.op = "Iterate" /\ f.pc = "done")
          => f.out = IterateRun(base, IterateCall(cur, f.stopAfter)).out

\* C3: in every interleaving of two calls on one handle, no step stores into a
\* node or children array that a returned handle reaches; a writer stores only
\* into nodes and arrays it allocated itself; every call is at nodes that a
\* returned handle reaches or that it allocated itself; a reader returns what
\* it returns when it runs alone on the handle.
C3_ReadersRaceFree ==
    [][\A p \in Procs :
          procs'[p] # procs[p] => StepStores(p) /\ ReadAlone(procs'[p])]_vars

\* a Get is half-way down the tree while a Delete is between its unlink and
\* its merge
C3_Witness ==
    /\ procs[1].op = "Get" /\ procs[1].pc = "get_loop"
    /\ procs[1].key0 = <<1, 2>> /\ procs[1].key = <<2>>
    /\ procs[2].op = "Delete" /\ procs[2].pc = "del_compress"
    /\ procs[2].key0 = <<1, 2>> /\ procs[2].unlinks = 1 /\ procs[2].merges = 0

\* The call of frame f run alone, from the heap the calls started on.
Alone(p, f) == Run(At(base, p), Call(f.op, cur, f.key0, f.val)).f

\* C4: each of two interleaved Insert/Delete calls on one handle returns a
\* handle that holds the receiver's contents with its own change and nothing
\* else, and returns the old value and flag it returns when run alone.
C4_WritersDiverge ==
    \A p \in Procs :
        (Writer(procs[p]) /\ Finished(procs[p])) =>
            LET f == procs[p]
                a == Alone(p, f)
            IN  /\ f.pc = "done"
                /\ f.oldVal = a.oldVal /\ f.existed = a.existed
                /\ f.newTree = a.newTree
                /\ \A k \in Keys :
                      Get(H, f.newTree, k) =
                          IF k # f.key0 THEN Get(base, cur, k)
                          ELSE IF f.op = "Insert" THEN [val |-> f.val, ok |-> TRUE]
                          ELSE NotFound

C4_Witness ==
    /\ procs[1].op = "Insert" /\ procs[1].pc = "done" /\ procs[1].key0 = <<1, 2, 2>>
    /\ procs[2].op = "Delete" /\ procs[2].pc = "done" /\ procs[2].key0 = <<1>>
    /\ procs[2].merges = 1 /\ procs[1].newTree # procs[2].newTree
    /\ Get(H, procs[1].newTree, <<1>>).ok /\ ~Get(H, procs[2].newTree, <<1, 2, 2>>).ok
    /\ Get(H, cur, <<1>>).ok /\ ~Get(H, cur, <<1, 2, 2>>).ok

\* C5: Delete of a key Get does not find returns (zero value, false, the
\* receiver) and allocates and stores nothing.
C5_NoOpDelete ==
    [][(last'.op = "Delete" /\ ~Get(H, cur, last'.key0).ok)
         => (/\ last'.pc = "done" /\ last'.oldVal = Zero /\ ~last'.existed
             /\ last'.newTree = cur
             /\ last'.mine = {} /\ last'.wAll = {} /\ last'.waAll = {}
             /\ HeapUnchanged)]_vars

\* the deleted key ends at a value-less branch node
C5_Witness ==
    /\ last.op = "Delete" /\ last.key0 = <<1>> /\ last.newTree = last.i /\ ~last.existed
    /\ Get(H, cur, <<1, 1>>).ok /\ Get(H, cur, <<1, 2>>).ok

\* C6: Insert of a value equal to the one Get finds returns (that value, true,
\* the receiver) and allocates and stores nothing; so the second of two equal
\* Inserts in a row returns the handle the first returned.
C6_NoOpInsert ==
    [][/\ (last'.op = "Insert" /\ Get(H, cur, last'.key0) = [val |-> last'.val, ok |-> TRUE])
           => (/\ last'.pc = "done" /\ last'.oldVal = last'.val /\ last'.existed
               /\ last'.newTree = cur
               /\ last'.mine = {} /\ last'.wAll = {} /\ last'.waAll = {}
               /\ HeapUnchanged)
       /\ (last.op = "Insert" /\ last'.op = "Insert"
             /\ last'.key0 = last.key0 /\ last'.val = last.val)
           => last'.newTree = last.newTree]_vars

C6_Witness ==
    /\ last.op = "Insert" /\ last.newTree = last.i /\ last.existed
    /\ last.key0 = <<1, 2>> /\ last.val = Zero /\ Cardinality(DOMAIN trees) = 3

\* C7: in the tree of every handle, every node but the root holds a value or
\* has at least two children.
C7_NoRedundantNodes ==
    \A i \in DOMAIN trees :
        \A n \in Reach(H, i) \ {trees[i].root} :
            nodes[n].val # NilVal \/ Len(children(H, n)) >= 2

C7_Witness ==
    /\ last.op = "Delete" /\ last.unlinks = 1 /\ last.merges = 1
    /\ \E n \in Reach(H, last.i) \ {trees[last.i].root} : nodes[n].val = NilVal

\* C8: in the tree of every handle, the paths of two children of one node start
\* with different bytes.
C8_UniqueBranchBytes ==
    \A i \in DOMAIN trees :
        \A n \in Reach(H, i) :
            \A a, b \in 1..Len(children(H, n)) :
                a # b => /\ nodes[children(H, n)[a]].path # <<>>
                         /\ nodes[children(H, n)[b]].path # <<>>
                         /\ nodes[children(H, n)[a]].path[1] # nodes[children(H, n)[b]].path[1]

C8_Witness ==
    /\ last.op = "Insert" /\ last.newTree # last.i
    /\ \E n \in Reach(H, cur) \ {trees[cur].root} : Len(children(H, n)) = 2
    /\ Len(children(H, trees[cur].root)) = 2

\* C9: Insert returns (old, true) with old the value Get found on the receiver,
\* equal to the new value or not, and (zero value, false) when Get found none.
C9_InsertReturns ==
    [][last'.op = "Insert"
         => /\ last'.pc = "done"
            /\ last'.existed = Get(H, cur, last'.key0).ok
            /\ last'.oldVal = Get(H, cur, last'.key0).val]_vars

C9_Witness ==
    /\ last.op = "Insert" /\ last.existed /\ last.oldVal # last.val
    /\ last.key0 = <<1>> /\ Get(H, cur, <<1, 2>>).ok

\* C10: Delete of a key Get finds with value v returns (v, true, a new handle);
\* on the new handle Get does not find the key and finds for every other key
\* what it found on the receiver.
C10_DeleteReturns ==
    [][(last'.op = "Delete" /\ Get(H, cur, last'.key0).ok)
         => /\ last'.pc = "done"
            /\ last'.existed /\ last'.oldVal = Get(H, cur, last'.key0).val
            /\ last'.newTree \notin DOMAIN trees /\ last'.newTree \in DOMAIN trees'
            /\ ~Get(H2, last'.newTree, last'.key0).ok
            /\ \A j \in Keys \ {last'.key0} :
                  Get(H2, last'.newTree, j) = Get(H, cur, j)]_vars

C10_Witness ==
    /\ last.op = "Delete" /\ last.existed /\ last.newTree # last.i
    /\ last.key0 = <<1, 2>> /\ last.merges = 1
    /\ Get(H, cur, <<1, 2, 1>>).ok /\ Len(children(H, trees[cur].root)) = 1

C12_IterateOrder ==
    LET out == Iterate(H, cur)
    IN  /\ out = iterate(H, cur, <<>>, trees[cur].root)
        /\ \A a, b \in 1..Len(out) : ProperPrefix(out[a][1], out[b][1]) => a < b

\* <<1>> was inserted last, into a split above <<1, 2>>, and is yielded before
\* it and after <<2>>, the first child of the root
C12_Witness ==
    /\ last.op = "Insert" /\ last.key0 = <<1>> /\ ~last.existed
    /\ Len(Iterate(H, cur)) = 3
    /\ Iterate(H, cur)[1][1] = <<2>> /\ Iterate(H, cur)[2][1] = <<1>>
    /\ Iterate(H, cur)[3][1] = <<1, 2>>
\* The root node of handle i.
Root(M, i) == M.nodes[M.trees[i].root]

\* C13: Insert with the empty key returns a handle whose root holds the value
\* and has the receiver's root's children, the same nodes in the same order;
\* Get of the empty key then returns the value, every other key is found as
\* before, and a tree without entries has one entry afterwards.  Delete of the
\* empty key, when the root holds a value, returns a handle whose root holds
\* none and has the same children; nothing is unlinked or merged and every
\* other key is found as before.
C13_EmptyKeyIsRoot ==
    [][/\ (last'.op = "Insert" /\ last'.key0 = <<>>)
           => /\ last'.pc = "done"
              /\ Root(H2, last'.newTree).val = <<last'.val>>
              /\ Root(H2, last'.newTree).path = <<>>
              /\ children(H2, trees'[last'.newTree].root) = children(H, trees[cur].root)
              /\ Get(H2, last'.newTree, <<>>) = [val |-> last'.val, ok |-> TRUE]
              /\ \A k \in Keys \ {<<>>} : Get(H2, last'.newTree, k) = Get(H, cur, k)
              /\ Len(Iterate(H, cur)) = 0 => Len(Iterate(H2, last'.newTree)) = 1
       /\ (last'.op = "Delete" /\ last'.key0 = <<>> /\ Root(H, cur).val # NilVal)
           => /\ last'.pc = "done" /\ last'.newTree # cur
              /\ Root(H2, last'.newTree).val = NilVal
              /\ Root(H2, last'.newTree).path = <<>>
              /\ children(H2, trees'[last'.newTree].root) = children(H, trees[cur].root)
              /\ last'.unlinks = 0 /\ last'.merges = 0
              /\ Get(H2, last'.newTree, <<>>) = NotFound
              /\ \A k \in Keys \ {<<>>} : Get(H2, last'.newTree, k) = Get(H, cur, k)
              /\ Len(Iterate(H2, last'.newTree)) = Len(Iterate(H, cur)) - 1]_vars

\* the empty key was inserted beside <<1>> and deleted again: the root is left
\* without a value and with its one child
C13_Witness ==
    /\ last.op = "Delete" /\ last.key0 = <<>> /\ last.existed /\ last.newTree # last.i
    /\ Root(H, last.i).val # NilVal /\ Root(H, cur).val = NilVal
    /\ Len(children(H, trees[cur].root)) = 1 /\ Get(H, cur, <<1>>).ok
\* C14: every Insert and Delete made in a chain of calls from New(), with any
\* key, returns: Delete's walk finds the child for the next byte of the key
\* and never takes more bytes off the key than are left.  Get on the resulting
\* handle returns, for every key, a value with true or the zero value with false.
C14_NoPanic ==
    /\ last.pc = "done"
    /\ last.op \in {"Insert", "Delete"} => last.newTree \in DOMAIN trees
    /\ \A k \in Keys :
          /\ Get(H, cur, k).ok \in BOOLEAN
          /\ Get(H, cur, k).val \in Vals
          /\ ~Get(H, cur, k).ok => Get(H, cur, k).val = Zero

\* Delete of <<1>> from a tree whose only edge is <<1, 2>>: the key ends inside
\* the edge
C14_Witness ==
    /\ last.op = "Delete" /\ last.key0 = <<1>> /\ last.pc = "done" /\ ~last.existed
    /\ Len(children(H, trees[cur].root)) = 1
    /\ nodes[children(H, trees[cur].root)[1]].path = <<1, 2>>
\* How many steps a call at frame f has left at most: one per statement block
\* behind it, one per byte of the key left to descend (two in Delete, whose
\* descent adds an ancestor to compress per iteration), one per ancestor left
\* to compress.
StepsLeft(f) ==
    CASE f.pc \in {"done", "panic", "idle"} -> 0
      [] f.pc = "get_ret" -> 1
      [] f.pc = "get_loop" -> Len(f.key) + 2
      [] f.pc = "ins_tail" -> 1
      [] f.pc = "ins_loop" -> Len(f.key) + 2
      [] f.pc = "ins_root" -> Len(f.key) + 3
      [] f.pc = "ins_check" -> Len(f.key) + 4
      [] f.pc = "del_ret" -> 1
      [] f.pc = "del_compress" -> f.idx + 3
      [] f.pc = "del_clear" -> Len(f.parents) + 3
      [] f.pc = "del_loop" -> 2 * Len(f.key) + Len(f.parents) + 4
      [] f.pc = "del_root" -> 2 * Len(f.key) + 5
      [] OTHER -> 2 * Len(f.key) + 6

\* C15: every step of a Get, Insert or Delete call brings the call nearer to
\* its return: an iteration of a descent loop that stays in the loop takes at
\* least one byte off the key (so a descent makes at most len(key) iterations),
\* an iteration of Delete's compression loop that stays in the loop moves one
\* ancestor up, and the steps a call has left, bounded by its key's length and
\* the ancestors recorded, go down with every step.
C15_Terminates ==
    [][\A p \in Procs :
          (procs'[p] # procs[p] /\ procs[p].op \in {"Get", "Insert", "Delete"})
              => LET f == procs[p]
                     g == procs'[p]
                 IN  /\ StepsLeft(g) < StepsLeft(f)
                     /\ (g.pc = f.pc /\ f.pc \in {"get_loop", "ins_loop", "del_loop"})
                            => Len(g.key) < Len(f.key)
                     /\ f.pc = "del_loop" => Len(g.parents) <= Len(f.key0) - Len(g.key)
                     /\ (g.pc = f.pc /\ f.pc = "del_compress")
                            => /\ g.idx = f.idx - 1 /\ f.idx < Len(f.parents)
                               /\ g.unlinks + g.merges = Len(f.parents) - f.idx]_vars

\* a Delete has descended two levels and is compressing at the upper one, an
\* Insert is in its second descent
C15_Witness ==
    /\ procs[1].op = "Delete" /\ procs[1].pc = "del_compress"
    /\ Len(procs[1].parents) = 2 /\ procs[1].idx = 0
    /\ procs[2].op = "Insert" /\ procs[2].pc = "ins_loop"
    /\ Len(procs[2].key0) = 3 /\ Len(procs[2].key) = 1
\* The nodes of handle i on the way of key: the nodes the descents of lines
\* 60-82 and 123-134 go through, and the child the key leaves inside its path.
RECURSIVE PathFrom(_, _, _)
PathFrom(M, n, key) ==
    {n} \cup
    IF Len(key) = 0 THEN {}
    ELSE LET childIdx == IndexFunc(M, n, key[1])
         IN  IF childIdx = -1 THEN {}
             ELSE LET child == children(M, n)[childIdx + 1]
                      commonLen == commonPrefixLen(key, M.nodes[child].path)
                  IN  IF commonLen = Len(M.nodes[child].path)
                      THEN PathFrom(M, child, Drop(key, commonLen))
                      ELSE {child}

PathNodes(M, i, key) == PathFrom(M, M.trees[i].root, key)

\* C16: when Insert or Delete with key k on handle h returns a new handle h',
\* the nodes of h' are nodes of h that are not on the way of k, each with the
\* path, value and children list it has in h, and nodes the call allocated;
\* no node of h on the way of k is a node of h'.  The allocated ones are at most
\* one per node on the way of k, and for Insert a split node and a leaf.  Every
\* node of h off the way of k is a node of h', but for the one a Delete's
\* merge absorbed.
C16_StructuralSharing ==
    [][(last'.op \in {"Insert", "Delete"} /\ last'.pc = "done" /\ last'.newTree # cur)
         => LET way == PathNodes(H, cur, last'.key0)
                old == Reach(H, cur)
                new == Reach(H2, last'.newTree)
            IN  /\ new \subseteq (old \ way) \cup last'.mine
                /\ last'.mine \cap DOMAIN nodes = {}
                /\ \A n \in new \cap old :
                      nodes'[n] = nodes[n] /\ children(H2, n) = children(H, n)
                /\ Cardinality(last'.mine) <=
                      Cardinality(way) + (IF last'.op = "Insert" THEN 2 ELSE 0)
                /\ Cardinality((old \ way) \ new) <= last'.merges]_vars

\* an Insert that split an edge made four nodes (the clones of the root and of
\* the edge's node, the split node, the leaf) beside a subtree it shares
C16_Witness ==
    /\ last.op = "Insert" /\ last.newTree # last.i
    /\ Cardinality(last.mine \cap Reach(H, cur)) = 4
    /\ Cardinality(PathNodes(H, last.i, last.key0)) = 2
    /\ Reach(H, cur) \cap Reach(H, last.i) # {}
\* C17: in the tree of every handle, every node but the root has a path of at
\* least one byte: the split node, the child it demotes, a new leaf and a
\* merged node included.
C17_NonEmptyPaths ==
    \A i \in DOMAIN trees :
        /\ Root(H, i).path = <<>>
        /\ \A n \in Reach(H, i) \ {trees[i].root} : Len(nodes[n].path) >= 1

\* a Delete merged the node of <<1>> with its only child: the path <<1, 2>> is
\* the two paths joined
C17_Witness ==
    /\ last.op = "Delete" /\ last.key0 = <<1>> /\ last.merges = 1 /\ last.unlinks = 0
    /\ Len(children(H, trees[cur].root)) = 1
    /\ nodes[children(H, trees[cur].root)[1]].path = <<1, 2>>
    /\ nodes[children(H, trees[last.i].root)[1]].path = <<1>>
\* Some chain of at most `calls` Insert and Delete calls from handle i, each
\* returning a new handle, leads to a handle with a key whose Delete merges
\* two nodes or more.
RECURSIVE CascadeWithin(_, _, _)
CascadeWithin(M, i, calls) ==
    \/ \E k \in Keys : Run(M, Call("Delete", i, k, Zero)).f.merges >= 2
    \/ /\ calls > 0
       /\ \E op \in {"Insert", "Delete"}, k \in Keys, v \in Vals :
             LET r == Run(M, Call(op, i, k, v))
             IN  /\ (op = "Delete" => v = Zero)
                 /\ r.f.pc = "done" /\ r.f.newTree # i
                 /\ CascadeWithin(r.M, r.f.newTree, calls - 1)

\* C18 as claimed: a handle is reachable from New() by Insert and Delete calls
\* that has a present key whose Delete performs the merge step on two or more
\* nodes.
C18_CascadeReachable ==
    last.op = "New" => CascadeWithin(H, cur, MaxTrees - 1)

\* C18, amended: a Delete performs the merge step on at most one node and
\* unlinks at most one node, so its compression pass changes nodes at two
\* levels at most (the emptied leaf is unlinked and its parent merged with the
\* child it is left with).
C18_AtMostOneMerge ==
    last.op = "Delete"
        => /\ last.merges <= 1 /\ last.unlinks <= 1
           /\ last.merges + last.unlinks <= Len(last.parents)

\* a Delete unlinked the leaf of <<1, 2, 1>> and merged the split node above it
\* with the leaf's sibling; the pass went on to the root
C18_Witness ==
    /\ last.op = "Delete" /\ last.key0 = <<1, 2, 1>> /\ last.existed
    /\ Len(last.parents) = 2 /\ last.unlinks = 1 /\ last.merges = 1 /\ last.idx = -1
    /\ nodes[children(H, trees[cur].root)[1]].path = <<1, 2, 2>>
\* C19: once the consumer has answered false to a pair, the walk calls yield
\* no more: the pairs yielded stay as they are until the walk ends, so a walk
\* stopped at its n-th pair yields the first n pairs of the full sequence and
\* nothing else.  No step of a walk changes the heap, so the handle's tree is
\* after the walk what it was before.  A walk whose consumer never answers
\* false yields the full sequence from its start, whatever another walk on the
\* same handle did.
C19_IterateCancel ==
    [][\A p \in Procs :
          (procs'[p] # procs[p] /\ procs'[p].op = "Iterate")
              => LET f == procs[p]
                     g == procs'[p]
                     full == iterate(H, g.i, <<>>, trees[g.i].root)
                 IN  /\ f.pc = "idle" => (g.out = <<>> /\ ~g.stopped)
                     /\ f.pc # "idle"
                            => /\ HeapUnchanged
                               /\ Snapshot(H2, g.i) = Snapshot(H, g.i)
                               /\ f.stopped => (g.stopped /\ g.out = f.out)
                     /\ g.stopAfter > 0 => Len(g.out) <= g.stopAfter
                     /\ g.pc = "done"
                            => g.out = IF g.stopAfter > 0 /\ g.stopAfter <= Len(full)
                                       THEN Take(full, g.stopAfter) ELSE full]_vars

\* of two walks on a handle with two entries, one was stopped at the first
\* pair and has ended, the other has yielded both
C19_Witness ==
    /\ procs[1].op = "Iterate" /\ procs[1].pc = "done" /\ procs[1].stopped
    /\ procs[1].stopAfter = 1 /\ Len(procs[1].out) = 1
    /\ procs[2].op = "Iterate" /\ procs[2].pc = "done" /\ ~procs[2].stopped
    /\ Len(procs[2].out) = 2 /\ procs[2].out[1] = procs[1].out[1]
\* a < b bytewise (bytes.Compare(a, b) < 0)
LexLess(a, b) ==
    LET c == commonPrefixLen(a, b)
    IN  IF c = Len(a) THEN c < Len(b)
        ELSE IF c = Len(b) THEN FALSE
        ELSE a[c + 1] < b[c + 1]

\* The handles of a chain are numbered in the order the calls returned them.
\* Handle j was returned by Insert(k, ..) when it finds k with a value its
\* predecessor does not find.
InsertedAt(M, j, k) ==
    /\ j - 1 \in DOMAIN M.trees
    /\ Get(M, j, k).ok /\ Get(M, j, k) # Get(M, j - 1, k)

\* Every Insert of the chain used a key greater than every key inserted before.
Ascending(M) ==
    \A j \in DOMAIN M.trees, k \in Keys :
        InsertedAt(M, j, k)
            => \A i \in DOMAIN M.trees, m \in Keys :
                   (i < j /\ Get(M, i, m).ok) => LexLess(m, k)

RECURSIVE ShapeFrom(_, _, _, _)
ShapeFrom(M, n, key, parent) ==
    {[key |-> key, path |-> M.nodes[n].path, val |-> M.nodes[n].val, parent |-> parent]}
        \cup UNION {ShapeFrom(M, c, key \o M.nodes[c].path, key) : c \in Range(children(M, n))}

Shape(M, i) == ShapeFrom(M, M.trees[i].root, <<>>, <<>>)

\* The key-to-value mapping of handle i.
MapOf(M, i) == [k \in Keys |-> Get(M, i, k)]

\* The path-compressed trie of a mapping: a node for the empty key, for every
\* stored key and for every longest common prefix of two stored keys; each
\* node hangs below the longest proper prefix of its key that is a node.
TrieKeys(mp) ==
    LET K == {k \in Keys : mp[k].ok}
    IN  {<<>>} \cup {Take(a, commonPrefixLen(a, b)) : a \in K, b \in K}

ParentKey(S, p) ==
    CHOOSE q \in S : /\ ProperPrefix(q, p)
                     /\ \A r \in S : ProperPrefix(r, p) => Len(r) <= Len(q)

TrieNode(mp, S, p, above) ==
    [key |-> p, path |-> Drop(p, Len(above)),
     val |-> IF p \in Keys /\ mp[p].ok THEN <<mp[p].val>> ELSE NilVal,
     parent |-> above]

Trie(mp) ==
    UNION {{TrieNode(mp, S, p, IF p = <<>> THEN <<>> ELSE ParentKey(S, p)) : p \in S} :
               S \in {TrieKeys(mp)}}

\* C21: the tree of the handle a chain of calls ends with is the path-compressed
\* trie of the handle's key-to-value mapping, but for the order of siblings: it has one node for
\* each node of that trie, with the same path, value and parent, and no other
\* node.  So two handles with the same mapping, whatever calls made them, have
\* the same nodes, paths, values and parent-child relation; the earlier
\* handles of the chain with the same mapping are compared node by node.
C21_CanonicalShape ==
    \A shape \in {Shape(H, cur)}, mp \in {MapOf(H, cur)} :
        /\ shape = Trie(mp)
        /\ Cardinality(Reach(H, cur)) = Cardinality(shape)
        /\ \A i \in DOMAIN trees : MapOf(H, i) = mp => Shape(H, i) = shape

\* <<1, 2>> and <<1, 2, 1>> were inserted and <<1, 2>> deleted: the root has
\* one child, with path <<1, 2, 1>> and no children, as after Insert of
\* <<1, 2, 1>> alone
C21_Witness ==
    /\ last.op = "Delete" /\ last.key0 = <<1, 2>> /\ last.existed
    /\ Len(children(H, trees[cur].root)) = 1
    /\ nodes[children(H, trees[cur].root)[1]].path = <<1, 2, 1>>
    /\ Len(children(H, children(H, trees[cur].root)[1])) = 0
    /\ Cardinality(Shape(H, cur)) = 2 /\ Cardinality(Shape(H, last.i)) = 3
\* The tree below node n as a value: the node's path, its value and the trees
\* of its children in the order of the children list.
RECURSIVE TreeFrom(_, _)
TreeFrom(M, n) ==
    [path |-> M.nodes[n].path, val |-> M.nodes[n].val,
     children |-> [j \in 1..Len(children(M, n)) |-> TreeFrom(M, children(M, n)[j])]]

TreeOf(M, i) == TreeFrom(M, M.trees[i].root)

\* C22: when Insert(k, v) on a handle h that does not hold k has returned h1,
\* Delete(k) on h1 returns (v, true) and a handle that is neither h nor h1 and
\* whose tree is the tree of h: the same paths, values and children in the
\* same order at every node, on nodes of its own along the way of k.
C22_InsertDeleteRoundTrip ==
    [][(last'.op = "Insert" /\ ~Get(H, cur, last'.key0).ok)
         => \A r \in {Run(H2, Call("Delete", last'.newTree, last'.key0, Zero))} :
                /\ r.f.pc = "done" /\ r.f.existed /\ r.f.oldVal = last'.val
                /\ r.f.newTree \notin DOMAIN trees'
                /\ r.M.trees[r.f.newTree].root \notin DOMAIN nodes'
                /\ TreeOf(r.M, r.f.newTree) = TreeOf(H, cur)]_vars

\* <<1, 1>> was inserted beside <<1, 2>>, which split the edge, and deleted
\* again, which unlinked the leaf and merged the split node: the tree is
\* that of the handle before the Insert, on other nodes
C22_Witness ==
    /\ last.op = "Delete" /\ last.key0 = <<1, 1>> /\ last.existed
    /\ last.unlinks = 1 /\ last.merges = 1
    /\ last.i - 1 \in DOMAIN trees /\ ~Get(H, last.i - 1, <<1, 1>>).ok
    /\ Get(H, last.i - 1, <<1, 2>>).ok
    /\ TreeOf(H, cur) = TreeOf(H, last.i - 1)
    /\ Reach(H, cur) \cap Reach(H, last.i - 1) = {}
\* The keys of a sequence of pairs, in its order.
KeysOf(out) == [j \in 1..Len(out) |-> out[j][1]]

\* x stands before y in the sequence ks
Before(ks, x, y) ==
    \E a, b \in 1..Len(ks) : a < b /\ ks[a] = x /\ ks[b] = y

====
